---------------------------- MODULE Spec2Model ----------------------------
(***************************************************************************)
(* Model of the network-graph scripts: path search (task_02_graph.py:      *)
(* bfs_path, dfs_path, reconstruct_path, neighbors_sorted) and weighted    *)
(* shortest distances (task_03_graph.py: add_edge_weights,                 *)
(* dijkstra_from_source, all_pairs_shortest_distances).                    *)
(***************************************************************************)
EXTENDS Integers, Sequences, FiniteSets, TLC

(***************************************************************************)
(* Python floats (IEEE-754 binary64, round to nearest, ties to even).      *)
(* A float is [k, e, h, l]: k is "zero", "num" or "inf"; a "num" has the   *)
(* value (h * 2^28 + l) * 2^e with a 53-bit significand, so that sums are  *)
(* rounded exactly as the interpreter rounds them.                         *)
(***************************************************************************)
LimbBits == 28
MantBits == 53
LimbBase == 2^LimbBits

\* a wide natural <<h, l>> stands for h * LimbBase + l, with l < LimbBase
WNorm(h, l) == <<h + (l \div LimbBase), l % LimbBase>>

WAdd(x, y) == WNorm(x[1] + y[1], x[2] + y[2])

WLess(x, y) == x[1] < y[1] \/ (x[1] = y[1] /\ x[2] < y[2])

\* x shifted right by d bits (the bits shifted out are dropped)
WShr(x, d) ==
    IF d = 0 THEN x
    ELSE IF d < LimbBits
         THEN <<x[1] \div 2^d, (x[2] \div 2^d) + (x[1] % 2^d) * 2^(LimbBits - d)>>
         ELSE <<0, x[1] \div 2^(d - LimbBits)>>

\* TRUE when WShr(x, d) drops a set bit
WLost(x, d) ==
    IF d = 0 THEN FALSE
    ELSE IF d < LimbBits
         THEN x[2] % 2^d # 0
         ELSE x[2] # 0 \/ x[1] % 2^(d - LimbBits) # 0

\* sets the lowest bit of x when s holds (the sticky bit)
WSticky(x, s) == IF s /\ x[2] % 2 = 0 THEN <<x[1], x[2] + 1>> ELSE x

FloatZero == [k |-> "zero", e |-> 0, h |-> 0, l |-> 0]
FloatInf == [k |-> "inf", e |-> 0, h |-> 0, l |-> 0]

\* The float nearest to s * 2^e3, where s carries the significand followed by
\* three extra bits (guard, round, sticky) and 2^(MantBits+2) <= s < 2^(MantBits+4).
RoundW(s, e3) ==
    LET top == <<2^(MantBits + 3 - LimbBits), 0>>
        big == ~WLess(s, top)
        t == IF big THEN WSticky(WShr(s, 1), WLost(s, 1)) ELSE s
        e == IF big THEN e3 + 1 ELSE e3
        m == WShr(t, 3)
        r == t[2] % 8
        up == r > 4 \/ (r = 4 /\ m[2] % 2 = 1)
        m1 == IF up THEN WNorm(m[1], m[2] + 1) ELSE m
        over == m1[1] = 2^(MantBits - LimbBits)
    IN  IF over
        THEN [k |-> "num", e |-> e + 4, h |-> m1[1] \div 2, l |-> 0]
        ELSE [k |-> "num", e |-> e + 3, h |-> m1[1], l |-> m1[2]]

\* x + y for floats that are zero or positive (float.__add__)
FloatAdd(x, y) ==
    IF x.k = "inf" \/ y.k = "inf" THEN FloatInf
    ELSE IF x.k = "zero" THEN y
    ELSE IF y.k = "zero" THEN x
    ELSE LET a == IF x.e >= y.e THEN x ELSE y
             b == IF x.e >= y.e THEN y ELSE x
             gap == a.e - b.e
             d == IF gap > MantBits + 4 THEN MantBits + 4 ELSE gap
             a3 == WNorm(a.h * 8, a.l * 8)
             b3 == WNorm(b.h * 8, b.l * 8)
             bs == WSticky(WShr(b3, d), WLost(b3, d))
         IN  RoundW(WAdd(a3, bs), a.e - 3)

\* x < y (float.__lt__)
FloatLess(x, y) ==
    IF x.k = "inf" THEN FALSE
    ELSE IF y.k = "inf" THEN TRUE
    ELSE IF y.k = "zero" THEN FALSE
    ELSE IF x.k = "zero" THEN TRUE
    ELSE x.e < y.e \/ (x.e = y.e /\ WLess(<<x.h, x.l>>, <<y.h, y.l>>))

\* the number of bits of n >= 1
RECURSIVE BitLen(_)
BitLen(n) == IF n <= 1 THEN 1 ELSE 1 + BitLen(n \div 2)

\* x shifted left by c < LimbBits bits
WShl(x, c) ==
    <<x[1] * 2^c + (x[2] \div 2^(LimbBits - c)), (x[2] % 2^(LimbBits - c)) * 2^c>>

\* <<q * 2^bits + floor(r * 2^bits / s), remainder>> by long division, DivChunk
\* bits at a time (s < 2^(31 - DivChunk), r < s)
DivChunk == 10
RECURSIVE LongDiv(_, _, _, _)
LongDiv(bits, r, q, s) ==
    IF bits = 0 THEN <<q, r>>
    ELSE LET c == IF bits < DivChunk THEN bits ELSE DivChunk
             t == r * 2^c
         IN  LongDiv(bits - c, t % s, WAdd(WShl(q, c), <<0, t \div s>>), s)

\* 1.0 / s for an int s >= 1 (float.__truediv__)
FloatRecip(s) ==
    LET n == BitLen(s)
        qr == LongDiv(MantBits + 2 + n, 1, <<0, 0>>, s)
    IN  RoundW(WSticky(qr[1], qr[2] # 0), 0 - (MantBits + 2 + n))
(***************************************************************************)
(* Node identifiers are Python strings; sorted() and tuple comparison      *)
(* order them by code point, a proper prefix first.                        *)
(***************************************************************************)
\* ord() of every character of the identifiers used
Codepoints(n) ==
    CASE n = "ISP" -> <<73, 83, 80>>
      [] n = "Router" -> <<82, 111, 117, 116, 101, 114>>
      [] n = "Switch" -> <<83, 119, 105, 116, 99, 104>>
      [] n = "AP_1" -> <<65, 80, 95, 49>>
      [] n = "AP_2" -> <<65, 80, 95, 50>>
      [] n = "NAS" -> <<78, 65, 83>>
      [] n = "HomeServer" -> <<72, 111, 109, 101, 83, 101, 114, 118, 101, 114>>
      [] n = "Laptop_1" -> <<76, 97, 112, 116, 111, 112, 95, 49>>
      [] n = "Laptop_2" -> <<76, 97, 112, 116, 111, 112, 95, 50>>
      [] n = "PC" -> <<80, 67>>
      [] n = "Phone_1" -> <<80, 104, 111, 110, 101, 95, 49>>
      [] n = "Phone_2" -> <<80, 104, 111, 110, 101, 95, 50>>
      [] n = "TV" -> <<84, 86>>
      [] n = "Printer" -> <<80, 114, 105, 110, 116, 101, 114>>
      [] n = "IoT_Hub" -> <<73, 111, 84, 95, 72, 117, 98>>
      [] n = "Camera_1" -> <<67, 97, 109, 101, 114, 97, 95, 49>>
      [] n = "Camera_2" -> <<67, 97, 109, 101, 114, 97, 95, 50>>
      [] n = "sw" -> <<115, 119>>
      [] n = "AP" -> <<65, 80>>
      [] n = "pc" -> <<112, 99>>
      [] n = "Hub" -> <<72, 117, 98>>
      [] n = "a_1" -> <<97, 95, 49>>
      [] n = "Ghost" -> <<71, 104, 111, 115, 116>>

\* a < b for two sequences of code points
RECURSIVE SeqLess(_, _)
SeqLess(a, b) ==
    IF b = <<>> THEN FALSE
    ELSE IF a = <<>> THEN TRUE
    ELSE IF Head(a) # Head(b) THEN Head(a) < Head(b)
    ELSE SeqLess(Tail(a), Tail(b))

\* a < b (str.__lt__)
StrLess(a, b) == SeqLess(Codepoints(a), Codepoints(b))

\* sorted(S) for a set S of distinct strings
RECURSIVE Sorted(_)
Sorted(S) ==
    IF S = {} THEN <<>>
    ELSE LET m == CHOOSE x \in S : \A y \in S \ {x} : StrLess(x, y)
         IN  <<m>> \o Sorted(S \ {m})

\* reversed(s)
Reversed(s) == [i \in 1..Len(s) |-> s[Len(s) + 1 - i]]

Range(s) == {s[i] : i \in 1..Len(s)}

\* Python's None and a missing dict key
None == "<None>"

(***************************************************************************)
(* nx.Graph: the nodes in insertion order and the edges in insertion order,*)
(* each edge with its attribute dict (a function from its keys).           *)
(***************************************************************************)
Edge(u, v, data) == [u |-> u, v |-> v, data |-> data]

\* G.add_nodes_from(nodes); G.add_edges_from(edges)
Graph(nodes, edges) == [nodes |-> nodes, edges |-> edges]

\* dict.get(key, default)
Get(data, key, default) == IF key \in DOMAIN data THEN data[key] ELSE default

\* node in G
HasNode(G, n) == n \in Range(G.nodes)

\* G.neighbors(n): the adjacency of n, in the order its edges were added
Neighbors(G, n) ==
    LET inc == SelectSeq(G.edges, LAMBDA e : e.u = n \/ e.v = n)
    IN  [i \in 1..Len(inc) |-> IF inc[i].u = n THEN inc[i].v ELSE inc[i].u]

\* G.edges[u, v]: the attribute dict of the edge between u and v
EdgeData(G, u, v) ==
    LET e == CHOOSE x \in Range(G.edges) :
                 (x.u = u /\ x.v = v) \/ (x.u = v /\ x.v = u)
    IN  e.data

RefNodes ==
    <<"ISP", "Router", "Switch", "AP_1", "AP_2", "NAS", "HomeServer",
      "Laptop_1", "Laptop_2", "PC", "Phone_1", "Phone_2", "TV", "Printer",
      "IoT_Hub", "Camera_1", "Camera_2">>

Attrs(kind, speed) == [kind |-> kind, speed_mbps |-> speed]

RefEdges ==
    << Edge("ISP", "Router", Attrs("wan", 1000)),
       Edge("Router", "Switch", Attrs("ethernet", 1000)),
       Edge("Switch", "AP_1", Attrs("ethernet", 1000)),
       Edge("Switch", "AP_2", Attrs("ethernet", 1000)),
       Edge("Switch", "NAS", Attrs("ethernet", 1000)),
       Edge("Switch", "HomeServer", Attrs("ethernet", 1000)),
       Edge("Switch", "PC", Attrs("ethernet", 1000)),
       Edge("Switch", "Printer", Attrs("ethernet", 100)),
       Edge("AP_1", "Laptop_1", Attrs("wifi", 600)),
       Edge("AP_1", "Phone_1", Attrs("wifi", 300)),
       Edge("AP_1", "TV", Attrs("wifi", 300)),
       Edge("AP_2", "Laptop_2", Attrs("wifi", 600)),
       Edge("AP_2", "Phone_2", Attrs("wifi", 300)),
       Edge("AP_2", "IoT_Hub", Attrs("wifi", 150)),
       Edge("IoT_Hub", "Camera_1", Attrs("wifi", 50)),
       Edge("IoT_Hub", "Camera_2", Attrs("wifi", 50)) >>

\* mutant: the link of IoT_Hub is wired to AP_1 instead of AP_2
BuildTopologyMiswired ==
    Graph(RefNodes,
          [RefEdges EXCEPT ![14] = Edge("AP_1", "IoT_Hub", Attrs("wifi", 150))])

\* build_network_topology() of the path-search script (no weights)
BuildNetworkTopology == Graph(RefNodes, RefEdges)
(***************************************************************************)
(* Bounded families of small graphs, beside the reference topology.        *)
(***************************************************************************)
\* at most MaxEdges edges in a small graph of the path search
MaxEdges == 5
\* at most MaxWeightedEdges edges in a small weighted graph
MaxWeightedEdges == 3

PathNodes == <<"sw", "AP", "pc", "Hub", "a_1">>
WeightedNodes == <<"sw", "AP", "pc", "Hub">>

\* the pairs <<i, j>>, i < j <= n, in lexicographic order
PairSeq(n) ==
    LET S == {p \in (1..n) \X (1..n) : p[1] < p[2]}
        Before(p, q) == p[1] < q[1] \/ (p[1] = q[1] /\ p[2] <= q[2])
    IN  [k \in 1..Cardinality(S) |->
            CHOOSE p \in S : Cardinality({q \in S : Before(q, p)}) = k]

\* every simple graph on nodes with at most maxEdges edges, the attribute dict
\* of each edge drawn from dataSet
SmallGraphs(nodes, maxEdges, dataSet) ==
    LET ps == PairSeq(Len(nodes))
        Es == {E \in SUBSET Range(ps) : Cardinality(E) <= maxEdges}
        Edges(E, d) ==
            LET sel == SelectSeq(ps, LAMBDA p : p \in E)
            IN  [i \in 1..Len(sel) |->
                    Edge(nodes[sel[i][1]], nodes[sel[i][2]], d[sel[i]])]
    IN  UNION {{Graph(nodes, Edges(E, d)) : d \in [E -> dataSet]} : E \in Es}

VARIABLES
    G,            \* the graph
    algo,         \* the function running: "bfs", "dfs" or "dijkstra"
    start, goal,  \* its arguments
    frontier,     \* q of bfs_path, stack of dfs_path
    parent,       \* parent: node -> predecessor, None for start
    visit_order,  \* visit_order
    path,         \* the path returned
    pc,           \* where the running function is
    dist,         \* dist of dijkstra_from_source
    pq,           \* pq of dijkstra_from_source, kept in ascending order
    result,       \* result of all_pairs_shortest_distances
    expanded      \* history: how often each node was popped and relaxed

vars == <<G, algo, start, goal, frontier, parent, visit_order, path, pc,
          dist, pq, result, expanded>>

pathVars == <<frontier, parent, visit_order, path>>
dijkstraVars == <<dist, pq, result, expanded>>

(***************************************************************************)
(* Path search (task_02_graph.py)                                          *)
(***************************************************************************)
\* neighbors_sorted(G, node)
NeighborsSorted(G_, node) == Sorted(Range(Neighbors(G_, node)))

\* the walk of reconstruct_path from cur back along parent
RECURSIVE WalkBack(_, _, _)
WalkBack(par, cur, acc) ==
    IF cur = None THEN acc ELSE WalkBack(par, par[cur], Append(acc, cur))

\* mutant: the start node (parent None) is taken for a node without a parent
ReconstructPathNoneAsMissing(par, s, g) ==
    IF g \notin DOMAIN par \/ par[g] = None THEN <<>>
    ELSE LET p == Reversed(WalkBack(par, g, <<>>))
         IN  IF p # <<>> /\ p[1] = s THEN p ELSE <<>>

\* mutant: path.reverse() is left out
ReconstructPathNoReverse(par, s, g) ==
    IF g \notin DOMAIN par THEN <<>>
    ELSE LET p == WalkBack(par, g, <<>>)
         IN  IF p # <<>> /\ p[1] = s THEN p ELSE <<>>

\* reconstruct_path(parent, start, goal)
ReconstructPath(par, s, g) ==
    IF g \notin DOMAIN par THEN <<>>
    ELSE LET p == Reversed(WalkBack(par, g, <<>>))
         IN  IF p # <<>> /\ p[1] = s THEN p ELSE <<>>

\* the for loop of bfs_path over nbs: <<parent, q>> after it
RECURSIVE BfsDiscover(_, _, _, _)
BfsDiscover(nbs, v, par, q) ==
    IF nbs = <<>> THEN <<par, q>>
    ELSE LET nb == Head(nbs)
         IN  IF nb \notin DOMAIN par
             THEN BfsDiscover(Tail(nbs), v, par @@ (nb :> v), Append(q, nb))
             ELSE BfsDiscover(Tail(nbs), v, par, q)

\* mutant: the neighbours are pushed in ascending order (reversed() undone)
RECURSIVE DfsDiscoverAscending(_, _, _, _)
DfsDiscoverAscending(nbs, v, par, stack) ==
    IF nbs = <<>> THEN <<par, stack>>
    ELSE LET nb == nbs[Len(nbs)]
             rest == SubSeq(nbs, 1, Len(nbs) - 1)
         IN  IF nb \notin DOMAIN par
             THEN DfsDiscoverAscending(rest, v, par @@ (nb :> v), Append(stack, nb))
             ELSE DfsDiscoverAscending(rest, v, par, stack)

\* the for loop of dfs_path over reversed(nbs): <<parent, stack>> after it
RECURSIVE DfsDiscover(_, _, _, _)
DfsDiscover(nbs, v, par, stack) ==
    IF nbs = <<>> THEN <<par, stack>>
    ELSE LET nb == Head(nbs)
         IN  IF nb \notin DOMAIN par
             THEN DfsDiscover(Tail(nbs), v, par @@ (nb :> v), Append(stack, nb))
             ELSE DfsDiscover(Tail(nbs), v, par, stack)

\* mutant: q.pop() instead of q.popleft()
PopLeftFromRight(q) == <<q[Len(q)], SubSeq(q, 1, Len(q) - 1)>>

\* q.popleft(): <<the value, the queue left>>
PopLeft(q) == <<Head(q), Tail(q)>>

\* stack.pop(): <<the value, the stack left>>
Pop(stack) == <<stack[Len(stack)], SubSeq(stack, 1, Len(stack) - 1)>>

\* the state of bfs_path / dfs_path on entry to the while loop
PathInit(g, a, s, t) ==
    /\ G = g
    /\ algo = a
    /\ start = s
    /\ goal = t
    /\ frontier = <<s>>
    /\ parent = (s :> None)
    /\ visit_order = <<>>
    /\ path = <<>>
    /\ pc = "loop"
    /\ dist = <<>>
    /\ pq = <<>>
    /\ result = <<>>
    /\ expanded = <<>>

\* one iteration of the while loop of bfs_path
BfsStep ==
    /\ algo = "bfs"
    /\ pc = "loop"
    /\ frontier # <<>>
    /\ LET v == PopLeft(frontier)[1]
           q == PopLeft(frontier)[2]
       IN  /\ visit_order' = Append(visit_order, v)
           /\ IF v = goal
              THEN /\ pc' = "break"
                   /\ frontier' = q
                   /\ parent' = parent
              ELSE IF ~HasNode(G, v)
              THEN \* G.neighbors(v) raises NetworkXError
                   /\ pc' = "raised"
                   /\ frontier' = q
                   /\ parent' = parent
              ELSE LET r == BfsDiscover(NeighborsSorted(G, v), v, parent, q)
                   IN  /\ pc' = "loop"
                       /\ parent' = r[1]
                       /\ frontier' = r[2]
    /\ UNCHANGED <<G, algo, start, goal, path, dijkstraVars>>

\* one iteration of the while loop of dfs_path
DfsStep ==
    /\ algo = "dfs"
    /\ pc = "loop"
    /\ frontier # <<>>
    /\ LET v == Pop(frontier)[1]
           st == Pop(frontier)[2]
       IN  /\ visit_order' = Append(visit_order, v)
           /\ IF v = goal
              THEN /\ pc' = "break"
                   /\ frontier' = st
                   /\ parent' = parent
              ELSE IF ~HasNode(G, v)
              THEN \* G.neighbors(v) raises NetworkXError
                   /\ pc' = "raised"
                   /\ frontier' = st
                   /\ parent' = parent
              ELSE LET r == DfsDiscover(Reversed(NeighborsSorted(G, v)), v,
                                        parent, st)
                   IN  /\ pc' = "loop"
                       /\ parent' = r[1]
                       /\ frontier' = r[2]
    /\ UNCHANGED <<G, algo, start, goal, path, dijkstraVars>>

\* the return of bfs_path and of dfs_path, after the break or with the
\* frontier empty
PathReturn ==
    /\ algo \in {"bfs", "dfs"}
    /\ pc = "break" \/ (pc = "loop" /\ frontier = <<>>)
    /\ path' = ReconstructPath(parent, start, goal)
    /\ pc' = "done"
    /\ UNCHANGED <<G, algo, start, goal, frontier, parent, visit_order,
                   dijkstraVars>>

\* a node that is in no graph
Ghost == "Ghost"

\* the attribute dict of a small graph's edges in the path search
PathData == {[speed_mbps |-> 1000]}

InitPath ==
    \E g \in SmallGraphs(PathNodes, MaxEdges, PathData) \cup {BuildNetworkTopology} :
      \E a \in {"bfs", "dfs"} :
        \E s \in Range(g.nodes) \cup {Ghost}, t \in Range(g.nodes) \cup {Ghost} :
          PathInit(g, a, s, t)

NextPath == BfsStep \/ DfsStep \/ PathReturn

SpecPath == InitPath /\ [][NextPath]_vars
(***************************************************************************)
(* What the claims speak of: adjacency, paths, reachability.               *)
(***************************************************************************)
Adj(g, n) == Range(Neighbors(g, n))

Last(s) == s[Len(s)]

NoRepeat(s) == \A i, j \in 1..Len(s) : i # j => s[i] # s[j]

\* p is a path of g: consecutive nodes are joined by an edge, no node repeats
IsPath(g, p) ==
    /\ p # <<>>
    /\ \A i \in 1..Len(p) : HasNode(g, p[i])
    /\ \A i \in 1..(Len(p) - 1) : p[i + 1] \in Adj(g, p[i])
    /\ NoRepeat(p)

\* every path of g that extends the path p
RECURSIVE PathsExtending(_, _)
PathsExtending(g, p) ==
    {p} \cup UNION {PathsExtending(g, Append(p, n)) : n \in Adj(g, Last(p)) \ Range(p)}

\* every path of g from s to t
PathsBetween(g, s, t) == {p \in PathsExtending(g, <<s>>) : Last(p) = t}

Reachable(g, s, t) == PathsBetween(g, s, t) # {}

\* the least number of edges of a path from s to t (t reachable)
MinEdges(g, s, t) ==
    LET L == {Len(p) - 1 : p \in PathsBetween(g, s, t)}
    IN  CHOOSE n \in L : \A m \in L : n <= m

\* the least string of a non-empty set
MinStr(S) == CHOOSE x \in S : \A y \in S \ {x} : StrLess(x, y)

InGraph == HasNode(G, start) /\ HasNode(G, goal)

(***************************************************************************)
(* Claims on the path search                                               *)
(***************************************************************************)
\* C1: when goal is reachable from start, the path bfs_path returns is a path
\* from start to goal with the least number of edges of any such path.
C1_BfsShortest ==
    (pc = "done" /\ algo = "bfs" /\ InGraph /\ Reachable(G, start, goal)) =>
        /\ IsPath(G, path)
        /\ path[1] = start
        /\ Last(path) = goal
        /\ Len(path) - 1 = MinEdges(G, start, goal)

\* bfs_path has returned a path of two or more edges in a graph that also has
\* a longer path between the two nodes
C1_Witness ==
    /\ pc = "done" /\ algo = "bfs" /\ InGraph
    /\ Len(path) >= 3
    /\ \E p \in PathsBetween(G, start, goal) : Len(p) > Len(path)

\* C2 (as claimed): a query whose start or goal is not a node of the graph
\* never returns normally, it fails.
C2_UnknownNodeFails ==
    (algo \in {"bfs", "dfs"} /\ pc = "done") => InGraph

\* C6: with start = goal a node of the graph, both searches return the path
\* [start] with visit order [start], and no neighbour is enqueued or pushed.
C6_StartIsGoal ==
    (pc = "done" /\ algo \in {"bfs", "dfs"} /\ start = goal /\ InGraph) =>
        /\ path = <<start>>
        /\ visit_order = <<start>>
        /\ frontier = <<>>
        /\ DOMAIN parent = {start}

\* a search from a node with neighbours to itself has returned
C6_Witness ==
    /\ pc = "done" /\ algo \in {"bfs", "dfs"} /\ start = goal /\ InGraph
    /\ Cardinality(Adj(G, start)) >= 2

\* C7: for start and goal in the graph the path returned is empty or a
\* well-formed path from start to goal, and it is empty exactly when goal is
\* not reachable from start.
C7_PathWellFormed ==
    (pc = "done" /\ algo \in {"bfs", "dfs"} /\ InGraph) =>
        /\ path # <<>> =>
              (IsPath(G, path) /\ path[1] = start /\ Last(path) = goal)
        /\ path = <<>> <=> ~Reachable(G, start, goal)

\* dfs_path has returned a path of three edges where a shorter one exists
C7_Witness ==
    /\ pc = "done" /\ algo = "dfs" /\ InGraph
    /\ Len(path) = 4
    /\ MinEdges(G, start, goal) < 3

\* C8: on the reference topology both searches from ISP to Camera_1 return
\* ISP, Router, Switch, AP_2, IoT_Hub, Camera_1 (5 edges).
C8_ReferencePath ==
    (pc = "done" /\ algo \in {"bfs", "dfs"} /\ G = BuildNetworkTopology
        /\ start = "ISP" /\ goal = "Camera_1") =>
        /\ path = <<"ISP", "Router", "Switch", "AP_2", "IoT_Hub", "Camera_1">>
        /\ Len(path) - 1 = 5

\* dfs_path has returned on the reference topology for ISP and Camera_1
C8_Witness ==
    /\ pc = "done" /\ algo = "dfs" /\ Len(G.nodes) = 17 /\ Len(G.edges) = 16
    /\ start = "ISP" /\ goal = "Camera_1"
    /\ path # <<>>

\* one iteration of dfs_path, as C9 has it: see C9_DfsOrder
C9_Step ==
    (algo = "dfs" /\ pc = "loop" /\ frontier # <<>>) =>
        LET v == Last(frontier)
            U == {n \in Adj(G, v) : n \notin DOMAIN parent}
        IN  /\ visit_order' = Append(visit_order, v)
            /\ NoRepeat(visit_order')
            /\ NoRepeat(frontier')
            /\ Range(frontier') \ Range(frontier) \subseteq
                   (DOMAIN parent') \ (DOMAIN parent)
            /\ (v # goal /\ U # {}) =>
                   /\ pc' = "loop"
                   /\ frontier' # <<>>
                   /\ Last(frontier') = MinStr(U)

\* C9: in dfs_path the node popped is the top of the stack; after a popped
\* node v that is not the goal and has a neighbour without a parent, the top
\* of the stack (popped next) is the least such neighbour; a node is pushed
\* only when it gets its parent, so none is pushed or visited twice.
C9_DfsOrder == [][C9_Step]_vars

\* dfs_path has popped three nodes, the first of which had two or more
\* neighbours without a parent
C9_Witness ==
    /\ algo = "dfs" /\ Len(visit_order) >= 3
    /\ Cardinality({n \in DOMAIN parent : parent[n] = visit_order[1]}) >= 2
    /\ visit_order[2] = MinStr({n \in DOMAIN parent : parent[n] = visit_order[1]})
(***************************************************************************)
(* Weighted shortest distances (task_03_graph.py)                          *)
(***************************************************************************)
Max(a, b) == IF a >= b THEN a ELSE b

\* mutant: a missing speed defaults to 1000 instead of 1
EdgeWeightDefault1000(data) == FloatRecip(Max(Get(data, "speed_mbps", 1000), 1))

\* the weight add_edge_weights gives an edge with attribute dict data:
\* speed = max(int(data.get("speed_mbps", 1)), 1); 1.0 / speed
EdgeWeight(data) == FloatRecip(Max(Get(data, "speed_mbps", 1), 1))

\* add_edge_weights(G): data["weight"] is set on every edge
AddEdgeWeights(g) ==
    [g EXCEPT !.edges =
        [i \in DOMAIN g.edges |->
            [g.edges[i] EXCEPT !.data = ("weight" :> EdgeWeight(@)) @@ @]]]

\* (d1, n1) < (d2, n2), the order of the tuples in the heap
EntryLess(a, b) ==
    FloatLess(a[1], b[1]) \/ (a[1] = b[1] /\ StrLess(a[2], b[2]))

\* heapq.heappush(pq, item), the heap held as an ascending list
HeapPush(heap, item) ==
    LET below == SelectSeq(heap, LAMBDA x : ~EntryLess(item, x))
        above == SelectSeq(heap, LAMBDA x : EntryLess(item, x))
    IN  below \o <<item>> \o above

\* heapq.heappop(pq): <<the least item, the heap left>>
HeapPop(heap) == <<Head(heap), Tail(heap)>>

\* float(G.edges[u, v].get("weight", 1.0))
Weight(g, u, v) == Get(EdgeData(g, u, v), "weight", FloatRecip(1))

\* the for loop of dijkstra_from_source over the neighbours nbs of u:
\* <<dist, pq>> after it
RECURSIVE Relax(_, _, _, _, _, _)
Relax(g, nbs, u, cur_dist, d, heap) ==
    IF nbs = <<>> THEN <<d, heap>>
    ELSE LET v == Head(nbs)
             nd == FloatAdd(cur_dist, Weight(g, u, v))
         IN  IF FloatLess(nd, d[v])
             THEN Relax(g, Tail(nbs), u, cur_dist, [d EXCEPT ![v] = nd],
                        HeapPush(heap, <<nd, v>>))
             ELSE Relax(g, Tail(nbs), u, cur_dist, d, heap)

\* mutant: cur_dist >= dist[u]
StaleOrEqual(cur_dist, u, d) == ~FloatLess(cur_dist, d[u])

\* mutant: no lazy deletion, every popped entry is relaxed
StaleNever(cur_dist, u, d) == FALSE

\* cur_dist > dist[u]: the popped entry is stale
Stale(cur_dist, u, d) == FloatLess(d[u], cur_dist)

\* the nodes all_pairs_shortest_distances has still to start from
Pending == SelectSeq(G.nodes, LAMBDA n : n \notin DOMAIN result)

\* build_network_topology calls add_edge_weights(G) on the graph it built
BuildWeights ==
    /\ algo = "dijkstra"
    /\ pc = "build"
    /\ G' = AddEdgeWeights(G)
    /\ pc' = "all_pairs"
    /\ UNCHANGED <<algo, start, goal, pathVars, dijkstraVars>>

\* all_pairs_shortest_distances calls dijkstra_from_source(G, start) for the
\* next node; dist and pq are set up
DijkstraCall ==
    /\ algo = "dijkstra"
    /\ pc = "all_pairs"
    /\ Pending # <<>>
    /\ start' = Head(Pending)
    /\ dist' = [n \in Range(G.nodes) |->
                   IF n = start' THEN FloatZero ELSE FloatInf]
    /\ pq' = <<<<FloatZero, start'>>>>
    /\ expanded' = [n \in Range(G.nodes) |-> 0]
    /\ pc' = "loop"
    /\ UNCHANGED <<G, algo, goal, pathVars, result>>

\* one iteration of the while loop of dijkstra_from_source
DijkstraStep ==
    /\ algo = "dijkstra"
    /\ pc = "loop"
    /\ pq # <<>>
    /\ LET cur_dist == HeapPop(pq)[1][1]
           u == HeapPop(pq)[1][2]
           rest == HeapPop(pq)[2]
       IN  IF Stale(cur_dist, u, dist)
           THEN /\ pq' = rest
                /\ UNCHANGED <<dist, expanded>>
           ELSE LET r == Relax(G, Neighbors(G, u), u, cur_dist, dist, rest)
                IN  /\ dist' = r[1]
                    /\ pq' = r[2]
                    /\ expanded' = [expanded EXCEPT ![u] = @ + 1]
    /\ UNCHANGED <<G, algo, start, goal, pathVars, result, pc>>

\* dijkstra_from_source returns dist; result[start] = dist
DijkstraReturn ==
    /\ algo = "dijkstra"
    /\ pc = "loop"
    /\ pq = <<>>
    /\ result' = (start :> dist) @@ result
    /\ pc' = "all_pairs"
    /\ UNCHANGED <<G, algo, start, goal, pathVars, dist, pq, expanded>>

\* all_pairs_shortest_distances returns result
AllPairsReturn ==
    /\ algo = "dijkstra"
    /\ pc = "all_pairs"
    /\ Pending = <<>>
    /\ pc' = "done"
    /\ UNCHANGED <<G, algo, start, goal, pathVars, dijkstraVars>>

\* the attribute dicts of a small weighted graph's edges: a speed below 1, a
\* missing speed, and two speeds
WeightedData ==
    {[kind |-> "wifi"], [speed_mbps |-> 0 - 2], [speed_mbps |-> 0],
     [speed_mbps |-> 1], [speed_mbps |-> 3]}

\* the graph built, before add_edge_weights is called on it
InitDijkstra ==
    /\ G \in SmallGraphs(WeightedNodes, MaxWeightedEdges, WeightedData)
               \cup {BuildNetworkTopology}
    /\ algo = "dijkstra"
    /\ pc = "build"
    /\ start = None
    /\ goal = None
    /\ frontier = <<>>
    /\ parent = <<>>
    /\ visit_order = <<>>
    /\ path = <<>>
    /\ dist = <<>>
    /\ pq = <<>>
    /\ result = <<>>
    /\ expanded = <<>>

NextDijkstra ==
    BuildWeights \/ DijkstraCall \/ DijkstraStep \/ DijkstraReturn \/ AllPairsReturn

SpecDijkstra == InitDijkstra /\ [][NextDijkstra]_vars
(***************************************************************************)
(* Claims on the weighted shortest distances                               *)
(***************************************************************************)
\* the total weight of the path p, summed from its first node on, as
\* dijkstra_from_source sums it (cur_dist + w)
RECURSIVE SumWeights(_, _, _, _)
SumWeights(g, p, i, acc) ==
    IF i >= Len(p) THEN acc
    ELSE SumWeights(g, p, i + 1, FloatAdd(acc, Weight(g, p[i], p[i + 1])))

PathWeight(g, p) == SumWeights(g, p, 1, FloatZero)

\* the least total weight of a path from s to t (t reachable)
MinWeight(g, s, t) ==
    LET W == {PathWeight(g, p) : p \in PathsBetween(g, s, t)}
    IN  CHOOSE w \in W : \A x \in W : ~FloatLess(x, w)

Nodes == Range(G.nodes)

\* dijkstra_from_source(G, start) has just returned
Returned == algo = "dijkstra" /\ pc = "all_pairs" /\ start \in DOMAIN result

FloatOne == [k |-> "num", e |-> 0 - 52, h |-> 2^24, l |-> 0]

\* C3: when dijkstra_from_source(G, start) returns, dist[v] is the least
\* total weight of a path from start to v for every v reachable from start,
\* and +infinity for every other v (all weights are positive).
C3_DijkstraShortest ==
    Returned =>
        /\ \A e \in Range(G.edges) : FloatLess(FloatZero, e.data.weight)
        /\ \A v \in Nodes :
              result[start][v] =
                  IF Reachable(G, start, v) THEN MinWeight(G, start, v)
                  ELSE FloatInf

\* a call has returned where a two-edge path beat the direct edge to a
\* neighbour of start and another node is unreachable
C3_Witness ==
    /\ Returned
    /\ \E v \in Adj(G, start) : FloatLess(result[start][v], Weight(G, start, v))
    /\ \E v \in Nodes : result[start][v] = FloatInf

\* C4 (as claimed): the table of all_pairs_shortest_distances has an entry
\* for every ordered pair of nodes, is symmetric and has a zero diagonal.
C4_SymmetricTable ==
    (algo = "dijkstra" /\ pc = "done") =>
        /\ DOMAIN result = Nodes
        /\ \A a \in Nodes : DOMAIN result[a] = Nodes
        /\ \A a \in Nodes : result[a][a] = FloatZero
        /\ \A a, b \in Nodes : result[a][b] = result[b][a]

HasSpeed(data) == "speed_mbps" \in DOMAIN data

RECURSIVE SumOver(_, _)
SumOver(S, f) ==
    IF S = {} THEN 0
    ELSE LET x == CHOOSE y \in S : TRUE
         IN  f[x] + SumOver(S \ {x}, f)

\* a bound on the iterations the loop has left: the entries queued, and for
\* every node not expanded yet its own pop and the pushes of its expansion
Rank(heap, ex) ==
    Len(heap)
      + SumOver({n \in Nodes : ex[n] = 0},
                [n \in Nodes |-> Cardinality(Adj(G, n)) + 1])

\* C10, one iteration: a popped entry whose distance exceeds dist of its node
\* is dropped and nothing is relaxed; an entry that is not stale belongs to a
\* node not expanded before; dist of an expanded node never changes; the
\* bound on the iterations left decreases, so the loop terminates.
C10_Step ==
    (algo = "dijkstra" /\ pc = "loop" /\ pq # <<>>) =>
        LET cur_dist == pq[1][1]
            u == pq[1][2]
        IN  /\ \A x \in Range(pq) : ~EntryLess(x, pq[1])
            /\ FloatLess(dist[u], cur_dist) =>
                   (dist' = dist /\ expanded' = expanded /\ pq' = Tail(pq))
            /\ ~FloatLess(dist[u], cur_dist) =>
                   (expanded[u] = 0 /\ expanded'[u] = 1)
            /\ \A n \in Nodes : expanded[n] >= 1 => dist'[n] = dist[n]
            /\ pc' = "loop"
            /\ Rank(pq', expanded') < Rank(pq, expanded)

\* C10, the end of the loop: the queue is empty and exactly the nodes
\* reachable from start have been expanded, once each.
C10_AtReturn ==
    Returned =>
        /\ pq = <<>>
        /\ \A n \in Nodes :
              expanded[n] = IF Reachable(G, start, n) THEN 1 ELSE 0

\* C10: lazy deletion of stale entries, one expansion per reachable node, no
\* change of dist after the expansion, and the loop of dijkstra_from_source
\* terminates with an empty queue.
C10_LazyDeletion == [][C10_Step /\ C10_AtReturn']_vars

\* a stale entry is at the head of the queue: its node was expanded with a
\* smaller distance
C10_Witness ==
    /\ algo = "dijkstra" /\ pc = "loop" /\ pq # <<>>
    /\ FloatLess(dist[pq[1][2]], pq[1][1])
    /\ expanded[pq[1][2]] = 1
====
